---- MODULE Spec2Model ----
(***************************************************************************)
(* Content lifecycle of the wedding media sharing server: uploads and      *)
(* guestbook posts, the moderation status of each item, the guest-facing   *)
(* listings and reads, likes, and the socket.io messages sent to event     *)
(* rooms.                                                                  *)
(*                                                                         *)
(* The two MongoDB collections (Media, Guestbook) are kept in one store,   *)
(* `items`, keyed by ObjectId; the field `coll` says which collection a    *)
(* document lives in.  ObjectIds are handed out in increasing order and    *)
(* never reused.                                                           *)
(*                                                                         *)
(* Under Spec, SpecSubmit, SpecBulk and SpecReads every HTTP handler runs   *)
(* to completion in one step.  Under SpecLikeOnly and SpecLikes the like   *)
(* and unlike requests are split at their await point: the load of the     *)
(* document, then the save.                                                *)
(***************************************************************************)
EXTENDS Integers, Sequences, FiniteSets, TLC

VARIABLES
    events,     \* Event collection: eventId -> event document
    items,      \* Media and Guestbook collections: ObjectId -> document
    nextId,     \* the next ObjectId to hand out
    stats,      \* Event.statistics of each event
    reqs,       \* like / unlike requests in flight, one slot per client
    resp,       \* the request most recently answered, with its response
    emitted,    \* messages io.to(room).emit(...) sent by the latest step
    sockets,    \* socket.io connections: connected, and the rooms joined
    inbox,      \* the messages each connection received in the latest step
    storage,    \* Cloudinary: the ids of the items whose payload is stored
    limiter     \* one userRateLimit instance: the clock, its Map, and the
                \* arrival times of the requests it passed on

vars == <<events, items, nextId, stats, reqs, resp, emitted, sockets, inbox, storage,
          limiter>>

----------------------------------------------------------------------------
(* Bounds of the model *)

NumItems == 2       \* ObjectIds 1..NumItems can be created
MaxFiles == 2       \* files in one upload request
MaxViews == 1       \* cap of the views / downloads counters
MaxLikes == 2       \* cap of the length of a like list
NumClients == 2     \* clients with a like / unlike request in flight
NumSockets == 2     \* socket.io connections

ItemIds == 1..NumItems
Clients == 1..NumClients
Sockets == 1..NumSockets
EventIds == {"E1", "E2"}
Users == {"h1", "p1", "h2", "adm"}
NoUser == "anon"
GuestNames == {"Alice", "Bob"}
Passwords == {"", "secret"}

Statuses == {"pending", "approved", "rejected"}

\* User.role
role(u) ==
    CASE u = "p1" -> "photographer"
      [] u = "adm" -> "admin"
      [] OTHER -> "host"

NoDoc == [coll |-> "none"]

\* userRateLimit(maxRequests, windowMs) of one route, and the clock
MaxRequests == 2
WindowMs == 2
MaxNow == 4
\* req.user._id of an authenticated caller, req.ip of a guest
Identifiers == {"h1", "ip1"}

----------------------------------------------------------------------------
(* Documents *)

\* Event document: host, photographers, isActive, isPublished, privacy.*, settings.*
EventDoc(host, photographers, protected) ==
    [host |-> host, photographers |-> photographers,
     isActive |-> TRUE, isPublished |-> TRUE,
     isPasswordProtected |-> protected,
     password |-> IF protected THEN "secret" ELSE "",
     allowDownloads |-> TRUE, moderateUploads |-> FALSE,
     allowComments |-> TRUE, allowLikes |-> TRUE,
     enableGuestbook |-> TRUE, enableAudioMessages |-> TRUE]

\* mediaSchema.status: default 'approved'
MediaDefaultStatusPending == "pending"
MediaDefaultStatus == "approved"

\* guest submissions: status: event.privacy.moderateUploads ? 'pending' : 'approved'
GuestStatusApproved(event) == "approved"
GuestStatus(event) == IF event.moderateUploads THEN "pending" ELSE "approved"

\* new Media({...}): the fields the handlers read or write
MediaDoc(e, fileType, status) ==
    [coll |-> "media", event |-> e, kind |-> fileType,
     status |-> status, isHidden |-> FALSE, isFeatured |-> FALSE,
     isPinned |-> FALSE, likes |-> <<>>, comments |-> <<>>,
     views |-> 0, downloads |-> 0]

\* new Guestbook({...})
GuestbookDoc(e, messageType, status, guestName, textMessage) ==
    [coll |-> "guestbook", event |-> e, kind |-> messageType,
     guestName |-> guestName, textMessage |-> textMessage,
     status |-> status, isHidden |-> FALSE, isFeatured |-> FALSE,
     isPinned |-> FALSE, likes |-> <<>>, comments |-> <<>>,
     views |-> 0, downloads |-> 0]

\* Model.findById / find: the documents of a collection
InColl(coll, i) == items[i].coll = coll

Msg(room, type, id) == [room |-> room, type |-> type, id |-> id]

\* String.prototype.trim() on the strings of the model
Trim(n) ==
    CASE n = "Alice " -> "Alice"
      [] n = "hi " -> "hi"
      [] n = " " -> ""
      [] OTHER -> n

\* the payload {entry: guestbookEntry, eventId} of new-guestbook-entry; a
\* payload without the text of the entry comes first
EntryMsgNoText(e, id, entry) ==
    [room |-> e, type |-> "new-guestbook-entry", id |-> id,
     guestName |-> entry.guestName, textMessage |-> ""]
EntryMsg(e, id, entry) ==
    [room |-> e, type |-> "new-guestbook-entry", id |-> id,
     guestName |-> entry.guestName, textMessage |-> entry.textMessage]

\* io.to(room).emit(...): every message of the step goes to the connections
\* that are in its room when it is sent
\* the documents that come with a file: every media item, and the guestbook
\* entries with an audio message
HasPayload(doc) ==
    \/ doc.coll = "media"
    \/ doc.coll = "guestbook" /\ doc.kind \in {"audio", "mixed"}

\* the upload middleware has stored the file of every item the step creates;
\* deleteFile removes the file of every item the step deletes, except those
\* in kept, for which it raised; lost are files removed although their item
\* stays
StorageAfter(kept, lost) ==
    ((storage \cup {i \in ItemIds : /\ items[i] = NoDoc /\ items'[i] # NoDoc
                                    /\ HasPayload(items'[i])})
       \ ({i \in ItemIds : items[i] # NoDoc /\ items'[i] = NoDoc} \ kept)) \ lost

DeliverToAll ==
    /\ sockets' = sockets
    /\ inbox' = [s \in Sockets |->
                   SelectSeq(emitted', LAMBDA m : sockets[s].connected)]
    /\ storage' = StorageAfter({}, {})
    /\ limiter' = limiter
Deliver ==
    /\ sockets' = sockets
    /\ inbox' = [s \in Sockets |->
                   SelectSeq(emitted', LAMBDA m : /\ sockets[s].connected
                                                  /\ m.room \in sockets[s].rooms)]
    /\ storage' = StorageAfter({}, {})
    /\ limiter' = limiter

\* the same, when deleteFile raised for the files in kept and removed those
\* in lost
DeliverStorage(kept, lost) ==
    /\ sockets' = sockets
    /\ inbox' = [s \in Sockets |->
                   SelectSeq(emitted', LAMBDA m : /\ sockets[s].connected
                                                  /\ m.room \in sockets[s].rooms)]
    /\ storage' = StorageAfter(kept, lost)
    /\ limiter' = limiter

----------------------------------------------------------------------------
(* Middleware *)

\* authenticateToken: 401 without a token of an active user
authenticateToken(u) == IF u = NoUser THEN 401 ELSE 0

\* requireEventOwnership: host, photographer of the event, or admin
requireEventOwnership(u, e) ==
    IF e \notin EventIds THEN 404
    ELSE LET isHost == events[e].host = u
             isPhotographer == u \in events[e].photographers
             isAdmin == role(u) = "admin"
         IN  IF ~isHost /\ ~isPhotographer /\ ~isAdmin THEN 403 ELSE 0

\* validateEventAccess: the event is active and published, and the password
\* matches when the event is password protected
validateEventAccess(e, pw) ==
    IF e \notin EventIds \/ ~events[e].isActive \/ ~events[e].isPublished THEN 404
    ELSE IF events[e].isPasswordProtected
            /\ (pw = "" \/ pw # events[e].password) THEN 401
    ELSE 0

\* isOwner of the update / delete handlers: host or photographer, no admin
\* a permission test that passes every authenticated user
isAnyUser(u, e) == u \in Users
isOwner(u, e) == events[e].host = u \/ u \in events[e].photographers

\* The response of a handler: the status code and the ids of the documents in
\* its body; op names the handler that answered.
Reply(op, code, ids) == [op |-> op, code |-> code, ids |-> ids]
\* res.status(code).json({success: false, ...})
Error(code) == [op |-> "error", code |-> code, ids |-> {}]

\* Two events have been created and published: E1 by host h1 with
\* photographer p1 and no password, E2 by host h2 with a password.  Both
\* collections are empty and no request is in flight.
Init ==
    /\ events = [e \in EventIds |->
                   IF e = "E1" THEN EventDoc("h1", {"p1"}, FALSE)
                               ELSE EventDoc("h2", {}, TRUE)]
    /\ items = [i \in ItemIds |-> NoDoc]
    /\ nextId = 1
    /\ stats = [e \in EventIds |->
                  [totalPhotos |-> 0, totalVideos |-> 0, totalGuestbookEntries |-> 0]]
    /\ reqs = [c \in Clients |-> [pc |-> "idle"]]
    /\ resp = Reply("none", 0, {})
    /\ emitted = <<>>
    /\ sockets = [s \in Sockets |-> [connected |-> FALSE, rooms |-> {}]]
    /\ inbox = [s \in Sockets |-> <<>>]
    /\ storage = {}
    /\ limiter = [now |-> 0,
                  requests |-> [a \in Identifiers |-> <<>>],
                  passed |-> [a \in Identifiers |-> <<>>]]

\* a request refused before any state change
Refuse(code) ==
    /\ resp' = Error(code)
    /\ emitted' = <<>>
    /\ UNCHANGED <<events, items, nextId, stats, reqs>>
    /\ Deliver

----------------------------------------------------------------------------
(* Event settings *)

\* PUT /api/events/:eventId with body {privacy: {moderateUploads}}
UpdateEvent(u, e, moderate) ==
    LET code == IF authenticateToken(u) # 0 THEN authenticateToken(u)
                ELSE IF requireEventOwnership(u, e) # 0 THEN requireEventOwnership(u, e)
                ELSE 200
    IN  IF code = 200
        THEN /\ events' = [events EXCEPT ![e].moderateUploads = moderate]
             /\ resp' = Reply("updateEvent", 200, {})
             /\ emitted' = <<>>
             /\ UNCHANGED <<items, nextId, stats, reqs>>
             /\ Deliver
        ELSE Refuse(code)

----------------------------------------------------------------------------
(* Uploads and guestbook posts *)

FileTypes == {"image", "video"}
FileLists == UNION {[1..n -> FileTypes] : n \in 0..MaxFiles}
Texts == {"", " ", "hi", "hi "}

\* uploadedMedia.filter(m => m.fileType === t).length
CountType(files, ks, t) == Cardinality({k \in ks : files[k] = t})

\* $inc of statistics.totalPhotos / totalVideos after an upload
IncMediaStats(e, photos, videos) ==
    [stats EXCEPT ![e].totalPhotos = @ + photos, ![e].totalVideos = @ + videos]

\* the new-media messages of files first .. first+n-1, in upload order
NewMediaMsgs(e, first, n) == [k \in 1..n |-> Msg(e, "new-media", first + k - 1)]

\* POST /api/media/upload/:eventId
Upload(u, e, files) ==
    LET n == Len(files)
        code == IF authenticateToken(u) # 0 THEN authenticateToken(u)
                ELSE IF requireEventOwnership(u, e) # 0 THEN requireEventOwnership(u, e)
                ELSE IF n = 0 THEN 400
                ELSE 201
        saved == nextId .. (nextId + n - 1)
    IN  /\ nextId + n - 1 <= NumItems
        /\ IF code = 201
           THEN /\ items' = [i \in ItemIds |->
                               IF i \in saved
                               THEN MediaDoc(e, files[i - nextId + 1],
                                             MediaDefaultStatus)
                               ELSE items[i]]
                /\ nextId' = nextId + n
                /\ emitted' = NewMediaMsgs(e, nextId, n)
                /\ stats' = IncMediaStats(e, CountType(files, 1..n, "image"),
                                             CountType(files, 1..n, "video"))
                /\ resp' = Reply("upload", 201, saved)
                /\ UNCHANGED <<events, reqs>>
                /\ Deliver
           ELSE Refuse(code)

\* POST /api/media/guest-upload/:eventId
GuestUpload(e, pw, guestName, files) ==
    LET n == Len(files)
        code == IF validateEventAccess(e, pw) # 0 THEN validateEventAccess(e, pw)
                ELSE IF n = 0 THEN 400
                ELSE IF guestName = "" THEN 400
                ELSE 201
        status == GuestStatus(events[e])
        saved == nextId .. (nextId + n - 1)
        \* uploadedMedia holds the approved ones only
        uploaded == IF status = "approved" THEN 1..n ELSE {}
    IN  /\ nextId + n - 1 <= NumItems
        /\ IF code = 201
           THEN /\ items' = [i \in ItemIds |->
                               IF i \in saved
                               THEN MediaDoc(e, files[i - nextId + 1], status)
                               ELSE items[i]]
                /\ nextId' = nextId + n
                /\ emitted' = IF status = "approved"
                              THEN NewMediaMsgs(e, nextId, n) ELSE <<>>
                /\ stats' = IF uploaded # {}
                            THEN IncMediaStats(e, CountType(files, uploaded, "image"),
                                                  CountType(files, uploaded, "video"))
                            ELSE stats
                /\ resp' = Reply("guestUpload", 201,
                                 IF status = "approved" THEN saved ELSE {})
                /\ UNCHANGED <<events, reqs>>
                /\ Deliver
           ELSE Refuse(code)

\* the save of one guestbook entry, the statistics and the broadcast that follow
SaveEntry(op, e, messageType, guestName, textMessage) ==
    LET status == GuestStatus(events[e])
        entry == GuestbookDoc(e, messageType, status, guestName, textMessage)
    IN  /\ nextId <= NumItems
        /\ items' = [items EXCEPT ![nextId] = entry]
        /\ nextId' = nextId + 1
        /\ stats' = IF status = "approved"
                    THEN [stats EXCEPT ![e].totalGuestbookEntries = @ + 1]
                    ELSE stats
        /\ emitted' = IF status = "approved"
                      THEN <<EntryMsg(e, nextId, entry)>>
                      ELSE <<>>
        /\ resp' = Reply(op, 201, {nextId})
        /\ UNCHANGED <<events, reqs>>
        /\ Deliver

\* POST /api/guestbook/:eventId
PostGuestbook(e, pw, guestName, textMessage) ==
    LET code == IF validateEventAccess(e, pw) # 0 THEN validateEventAccess(e, pw)
                ELSE IF Trim(guestName) = "" THEN 400
                ELSE IF ~events[e].enableGuestbook THEN 403
                ELSE IF Trim(textMessage) = "" THEN 400
                ELSE 201
    IN  IF code = 201
        THEN SaveEntry("postGuestbook", e, "text", Trim(guestName), Trim(textMessage))
        ELSE Refuse(code)

\* POST /api/guestbook/:eventId/audio
PostGuestbookAudio(e, pw, guestName, textMessage, hasFile) ==
    LET code == IF validateEventAccess(e, pw) # 0 THEN validateEventAccess(e, pw)
                ELSE IF ~events[e].enableGuestbook \/ ~events[e].enableAudioMessages
                     THEN 403
                ELSE IF ~hasFile THEN 400
                ELSE IF Trim(guestName) = "" THEN 400
                ELSE 201
    IN  IF code = 201
        THEN SaveEntry("postGuestbookAudio", e,
                       IF Trim(textMessage) # "" THEN "mixed" ELSE "audio",
                       Trim(guestName), Trim(textMessage))
        ELSE Refuse(code)

----------------------------------------------------------------------------
(* Guest-facing listings *)

\* query of GET /api/media/event/:eventId: {event, status: 'approved', isHidden: false}
MediaQueryNoStatus(e, featured) ==
    {i \in ItemIds : /\ InColl("media", i)
                     /\ items[i].event = e
                     /\ ~items[i].isHidden
                     /\ (featured => items[i].isFeatured)}
MediaQuery(e, featured) ==
    {i \in ItemIds : /\ InColl("media", i)
                     /\ items[i].event = e
                     /\ items[i].status = "approved"
                     /\ ~items[i].isHidden
                     /\ (featured => items[i].isFeatured)}

\* query of GET /api/guestbook/:eventId
GuestbookQuery(e) ==
    {i \in ItemIds : /\ InColl("guestbook", i)
                     /\ items[i].event = e
                     /\ items[i].status = "approved"
                     /\ ~items[i].isHidden}

\* a handler that reads and answers, changing nothing
Answer(r) ==
    /\ resp' = r
    /\ emitted' = <<>>
    /\ UNCHANGED <<events, items, nextId, stats, reqs>>
    /\ Deliver

\* GET /api/media/event/:eventId
ListMedia(e, pw, featured) ==
    IF validateEventAccess(e, pw) # 0 THEN Refuse(validateEventAccess(e, pw))
    ELSE Answer(Reply("listMedia", 200, MediaQuery(e, featured)))

\* GET /api/guestbook/:eventId
ListGuestbook(e, pw) ==
    IF validateEventAccess(e, pw) # 0 THEN Refuse(validateEventAccess(e, pw))
    ELSE IF ~events[e].enableGuestbook THEN Refuse(403)
    ELSE Answer(Reply("listGuestbook", 200, GuestbookQuery(e)))

----------------------------------------------------------------------------
(* Reads of one item *)

\* the answer to a read of one item; user is req.user of the request
ReadReply(op, u, id) == [op |-> op, code |-> 200, ids |-> {id}, user |-> u]

\* media.incrementViews(): interactions.views += 1, save()
incrementViews(doc) == [doc EXCEPT !.views = @ + 1]

\* media.incrementDownloads(): interactions.downloads += 1, save()
incrementDownloads(doc) == [doc EXCEPT !.downloads = @ + 1]

\* GET /api/media/:mediaId.  The event is populated with 'title coupleNames
\* privacy settings' only, so for a request that carries a user the test
\* event.host.toString() throws and the error handler answers 500.
GetMedia(u, id) ==
    IF ~InColl("media", id) THEN Refuse(404)
    ELSE IF u # NoUser THEN Refuse(500)
    ELSE IF items[id].status # "approved" THEN Refuse(404)
    ELSE /\ items[id].views < MaxViews
         /\ items' = [items EXCEPT ![id] = incrementViews(@)]
         /\ resp' = ReadReply("getMedia", u, id)
         /\ emitted' = <<>>
         /\ UNCHANGED <<events, nextId, stats, reqs>>
         /\ Deliver

\* GET /api/guestbook/entry/:entryId: no middleware, no test of the status
GetEntry(u, id) ==
    IF ~InColl("guestbook", id) THEN Refuse(404)
    ELSE Answer(ReadReply("getEntry", u, id))

\* GET /api/media/:mediaId/download
\* a download route that counts before it looks at the policy
DownloadCounted(u, id) ==
    IF ~InColl("media", id) THEN Refuse(404)
    ELSE /\ items[id].downloads < MaxViews
         /\ items' = [items EXCEPT ![id] = incrementDownloads(@)]
         /\ resp' = IF ~events[items[id].event].allowDownloads THEN Error(403)
                    ELSE ReadReply("download", u, id)
         /\ emitted' = <<>>
         /\ UNCHANGED <<events, nextId, stats, reqs>>
         /\ Deliver

Download(u, id) ==
    IF ~InColl("media", id) THEN Refuse(404)
    ELSE IF ~events[items[id].event].allowDownloads THEN Refuse(403)
    ELSE /\ items[id].downloads < MaxViews
         /\ items' = [items EXCEPT ![id] = incrementDownloads(@)]
         /\ resp' = ReadReply("download", u, id)
         /\ emitted' = <<>>
         /\ UNCHANGED <<events, nextId, stats, reqs>>
         /\ Deliver

----------------------------------------------------------------------------
(* Likes *)

\* req.params.eventId of a route whose path has no :eventId
NoEvent == "undefined"
RawNames == {"", "Alice", "Alice ", "Bob"}

\* methods.addLike: the like array of the loaded document after the call
addLikeAlways(likes, guestName) == Append(likes, guestName)
addLike(likes, guestName) ==
    IF \E k \in 1..Len(likes) : likes[k] = guestName
    THEN likes
    ELSE Append(likes, guestName)

\* methods.removeLike: the array assigned to interactions.likes
removeLike(likes, guestName) == SelectSeq(likes, LAMBDA x : x # guestName)

\* save() after likes.push(): the update sent is $push of the new element,
\* applied to the array as stored
SaveWhole(stored, loaded, guestName) == Append(loaded, guestName)
SavePush(stored, loaded, guestName) == Append(stored, guestName)

LikedType(coll) == IF coll = "media" THEN "media-liked" ELSE "guestbook-liked"

\* a like / unlike request between its findById and its save; stale says
\* that the stored __v is no longer the __v the request loaded
Loaded(op, coll, e, id, name) ==
    [pc |-> "loaded", op |-> op, coll |-> coll, e |-> e, id |-> id,
     name |-> name, snap |-> items[id].likes, stale |-> FALSE]

\* the request of a client, answered
Done(r, code) ==
    [pc |-> "done", op |-> r.op, coll |-> r.coll, e |-> r.e, id |-> r.id,
     name |-> r.name, snap |-> r.snap, code |-> code]

\* an update of the like array of item id increments its __v
Bump(c, coll, id, done) ==
    [d \in Clients |->
       IF d = c THEN done
       ELSE IF reqs[d].pc = "loaded" /\ reqs[d].coll = coll /\ reqs[d].id = id
            THEN [reqs[d] EXCEPT !.stale = TRUE]
       ELSE reqs[d]]

\* POST /:mediaId/like, POST /entry/:entryId/like up to the findById
LikeLoad(coll, c, e, pw, id, guestName) ==
    /\ reqs[c].pc \in {"idle", "done"}
    /\ IF validateEventAccess(e, pw) # 0 THEN Refuse(validateEventAccess(e, pw))
       ELSE IF Trim(guestName) = "" THEN Refuse(400)
       ELSE IF ~InColl(coll, id) THEN Refuse(404)
       ELSE IF items[id].event # e THEN Refuse(403)
       ELSE /\ reqs' = [reqs EXCEPT ![c] = Loaded("like", coll, e, id, Trim(guestName))]
            /\ emitted' = <<>>
            /\ UNCHANGED <<events, items, nextId, stats, resp>>
            /\ Deliver

\* addLike on the loaded document, then the liked message and the answer
LikeSave(coll, c) ==
    LET r == reqs[c]
        mem == addLike(r.snap, r.name)
    IN  /\ r.pc = "loaded" /\ r.op = "like" /\ r.coll = coll
        /\ IF mem # r.snap /\ ~InColl(coll, r.id)
           THEN \* DocumentNotFoundError
                /\ reqs' = [reqs EXCEPT ![c] = Done(r, 500)]
                /\ resp' = Error(500)
                /\ emitted' = <<>>
                /\ UNCHANGED <<events, items, nextId, stats>>
                /\ Deliver
           ELSE /\ mem # r.snap => Len(items[r.id].likes) < MaxLikes
                /\ items' = IF mem # r.snap
                             THEN [items EXCEPT ![r.id].likes =
                                      SavePush(@, r.snap, r.name)]
                             ELSE items
                /\ reqs' = IF mem # r.snap THEN Bump(c, coll, r.id, Done(r, 200))
                            ELSE [reqs EXCEPT ![c] = Done(r, 200)]
                /\ emitted' = <<[room |-> r.e, type |-> LikedType(coll), id |-> r.id,
                                 likeCount |-> Len(mem) + 1]>>
                /\ resp' = [op |-> "like", code |-> 200, ids |-> {r.id},
                            likeCount |-> Len(mem) + 1]
                /\ UNCHANGED <<events, nextId, stats>>
                /\ Deliver

\* DELETE /:mediaId/like, DELETE /entry/:entryId/like up to the findById
UnlikeLoad(coll, c, e, pw, id, guestName) ==
    /\ reqs[c].pc \in {"idle", "done"}
    /\ IF validateEventAccess(e, pw) # 0 THEN Refuse(validateEventAccess(e, pw))
       ELSE IF Trim(guestName) = "" THEN Refuse(400)
       ELSE IF ~InColl(coll, id) THEN Refuse(404)
       ELSE /\ reqs' = [reqs EXCEPT ![c] = Loaded("unlike", coll, e, id, Trim(guestName))]
            /\ emitted' = <<>>
            /\ UNCHANGED <<events, items, nextId, stats, resp>>
            /\ Deliver

\* removeLike on the loaded document: the array is assigned, so save() sends
\* $set of the whole array under the condition that __v is the loaded one
UnlikeSave(coll, c) ==
    LET r == reqs[c]
        mem == removeLike(r.snap, r.name)
    IN  /\ r.pc = "loaded" /\ r.op = "unlike" /\ r.coll = coll
        /\ IF mem # r.snap /\ (~InColl(coll, r.id) \/ r.stale)
           THEN \* DocumentNotFoundError, VersionError
                /\ reqs' = [reqs EXCEPT ![c] = Done(r, 500)]
                /\ resp' = Error(500)
                /\ emitted' = <<>>
                /\ UNCHANGED <<events, items, nextId, stats>>
                /\ Deliver
           ELSE /\ items' = IF mem # r.snap
                             THEN [items EXCEPT ![r.id].likes = mem]
                             ELSE items
                /\ reqs' = IF mem # r.snap THEN Bump(c, coll, r.id, Done(r, 200))
                            ELSE [reqs EXCEPT ![c] = Done(r, 200)]
                /\ emitted' = <<>>
                /\ resp' = [op |-> "unlike", code |-> 200, ids |-> {r.id},
                            likeCount |-> Len(mem) - 1]
                /\ UNCHANGED <<events, nextId, stats>>
                /\ Deliver

----------------------------------------------------------------------------
(* Moderation of one item *)

\* a field of a request body: "undef" when the body does not carry it
BoolOf(x, old) == IF x = "undef" THEN old ELSE x = "true"

\* if (status === 'approved' && media.status !== 'approved'): the approval broadcast
BecameVisibleAlways(status, loadedStatus) == status = "approved"
BecameVisible(status, loadedStatus) == status = "approved" /\ loadedStatus # "approved"

\* updateData of PUT /api/media/:mediaId applied by findByIdAndUpdate
UpdateMediaDoc(doc, body) ==
    [doc EXCEPT !.status = IF body.status # "" THEN body.status ELSE @,
                !.isFeatured = BoolOf(body.isFeatured, @),
                !.isHidden = BoolOf(body.isHidden, @)]

\* updateData of PUT /api/guestbook/entry/:entryId
UpdateEntryDoc(doc, body) ==
    [doc EXCEPT !.status = IF body.status # "" THEN body.status ELSE @,
                !.isPinned = BoolOf(body.isPinned, @),
                !.isHidden = BoolOf(body.isHidden, @)]

\* the answer to an update request; status echoes req.body.status
PutReply(op, id, body) ==
    [op |-> op, code |-> 200, ids |-> {id}, status |-> body.status]

\* PUT /api/media/:mediaId
PutMedia(u, id, body) ==
    IF authenticateToken(u) # 0 THEN Refuse(401)
    ELSE IF ~InColl("media", id) THEN Refuse(404)
    ELSE IF ~isOwner(u, items[id].event) THEN Refuse(403)
    ELSE /\ items' = [items EXCEPT ![id] = UpdateMediaDoc(@, body)]
         /\ emitted' = IF BecameVisible(body.status, items[id].status)
                       THEN <<Msg(items[id].event, "media-approved", id)>>
                       ELSE <<>>
         /\ resp' = PutReply("putMedia", id, body)
         /\ UNCHANGED <<events, nextId, stats, reqs>>
         /\ Deliver

\* PUT /api/guestbook/entry/:entryId
PutEntry(u, id, body) ==
    IF authenticateToken(u) # 0 THEN Refuse(401)
    ELSE IF ~InColl("guestbook", id) THEN Refuse(404)
    ELSE IF ~isOwner(u, items[id].event) THEN Refuse(403)
    ELSE /\ items' = [items EXCEPT ![id] = UpdateEntryDoc(@, body)]
         /\ emitted' = IF BecameVisible(body.status, items[id].status)
                       THEN <<Msg(items[id].event, "guestbook-approved", id)>>
                       ELSE <<>>
         /\ resp' = PutReply("putEntry", id, body)
         /\ UNCHANGED <<events, nextId, stats, reqs>>
         /\ Deliver

\* DELETE /api/media/:mediaId
DeleteMedia(u, id) ==
    IF authenticateToken(u) # 0 THEN Refuse(401)
    ELSE IF ~InColl("media", id) THEN Refuse(404)
    ELSE IF ~isOwner(u, items[id].event) THEN Refuse(403)
    ELSE LET e == items[id].event
         IN  /\ items' = [items EXCEPT ![id] = NoDoc]
             /\ stats' = IF items[id].kind = "image"
                         THEN [stats EXCEPT ![e].totalPhotos = @ - 1]
                         ELSE IF items[id].kind = "video"
                         THEN [stats EXCEPT ![e].totalVideos = @ - 1]
                         ELSE stats
             /\ emitted' = <<Msg(e, "media-deleted", id)>>
             /\ resp' = Reply("deleteMedia", 200, {})
             /\ UNCHANGED <<events, nextId, reqs>>
             /\ Deliver

\* DELETE /api/guestbook/entry/:entryId
DeleteEntry(u, id) ==
    IF authenticateToken(u) # 0 THEN Refuse(401)
    ELSE IF ~InColl("guestbook", id) THEN Refuse(404)
    ELSE IF ~isOwner(u, items[id].event) THEN Refuse(403)
    ELSE LET e == items[id].event
         IN  /\ items' = [items EXCEPT ![id] = NoDoc]
             /\ stats' = [stats EXCEPT ![e].totalGuestbookEntries = @ - 1]
             /\ emitted' = <<Msg(e, "guestbook-deleted", id)>>
             /\ resp' = Reply("deleteEntry", 200, {})
             /\ UNCHANGED <<events, nextId, reqs>>
             /\ Deliver

----------------------------------------------------------------------------
(* Bulk actions *)

BulkActions == {"approve", "reject", "delete", "feature", "unfeature", "pin", "unpin"}

\* filter {_id: {$in: ids}, event: req.params.eventId} of find / updateMany / deleteMany
BulkFilterNoEvent(coll, ids, e) ==
    {i \in ids : InColl(coll, i)}
BulkFilter(coll, ids, e) ==
    {i \in ids : InColl(coll, i) /\ items[i].event = e}

\* updateData of the bulk handlers
BulkUpdateDoc(doc, action) ==
    [doc EXCEPT !.status = IF action = "approve" THEN "approved"
                           ELSE IF action = "reject" THEN "rejected" ELSE @,
                !.isFeatured = IF action = "feature" THEN TRUE
                               ELSE IF action = "unfeature" THEN FALSE ELSE @,
                !.isPinned = IF action = "pin" THEN TRUE
                             ELSE IF action = "unpin" THEN FALSE ELSE @]

\* the answer to a bulk request; event, req and action echo req.params.eventId,
\* the ids of the body and req.body.action
BulkReply(op, e, ids, action) ==
    [op |-> op, code |-> 200, ids |-> {}, event |-> e, req |-> ids, action |-> action]

\* PATCH /api/media/bulk-action/:eventId
BulkMedia(u, e, mediaIds, action) ==
    IF authenticateToken(u) # 0 THEN Refuse(401)
    ELSE IF requireEventOwnership(u, e) # 0 THEN Refuse(requireEventOwnership(u, e))
    ELSE IF mediaIds = {} THEN Refuse(400)
    ELSE IF action \notin {"approve", "reject", "delete", "feature", "unfeature"}
         THEN Refuse(400)
    ELSE LET hit == BulkFilter("media", mediaIds, e)
         IN  /\ items' = [i \in ItemIds |->
                            IF i \notin hit THEN items[i]
                            ELSE IF action = "delete" THEN NoDoc
                            ELSE BulkUpdateDoc(items[i], action)]
             /\ emitted' = <<>>
             /\ resp' = BulkReply("bulkMedia", e, mediaIds, action)
             /\ UNCHANGED <<events, nextId, stats, reqs>>
             /\ Deliver

\* PATCH /api/guestbook/bulk-action/:eventId
BulkGuestbook(u, e, entryIds, action) ==
    IF authenticateToken(u) # 0 THEN Refuse(401)
    ELSE IF requireEventOwnership(u, e) # 0 THEN Refuse(requireEventOwnership(u, e))
    ELSE IF entryIds = {} THEN Refuse(400)
    ELSE IF action \notin {"approve", "reject", "delete", "pin", "unpin"}
         THEN Refuse(400)
    ELSE LET hit == BulkFilter("guestbook", entryIds, e)
         IN  /\ items' = [i \in ItemIds |->
                            IF i \notin hit THEN items[i]
                            ELSE IF action = "delete" THEN NoDoc
                            ELSE BulkUpdateDoc(items[i], action)]
             /\ stats' = IF action = "delete"
                         THEN [stats EXCEPT
                                 ![e].totalGuestbookEntries = @ - Cardinality(hit)]
                         ELSE stats
             /\ emitted' = <<>>
             /\ resp' = BulkReply("bulkGuestbook", e, entryIds, action)
             /\ UNCHANGED <<events, nextId, reqs>>
             /\ Deliver

----------------------------------------------------------------------------
(* socket.io connections and rooms *)

\* the room names a client may send with join-event / leave-event
RoomNames == EventIds \cup {NoEvent}

\* a step of a connection: nothing is published, nothing is delivered
SocketStep(after) ==
    /\ sockets' = after
    /\ emitted' = <<>>
    /\ inbox' = [s \in Sockets |-> <<>>]
    /\ UNCHANGED <<events, items, nextId, stats, reqs, resp, storage, limiter>>

\* io.on('connection')
Connect(s) ==
    /\ ~sockets[s].connected
    /\ SocketStep([sockets EXCEPT ![s] = [connected |-> TRUE, rooms |-> {}]])

\* socket.on('join-event'): socket.join(eventId), whatever eventId is; a join
\* variant that would replay the latest messages of the room comes first
JoinEventReplay(s, eventId) ==
    /\ sockets[s].connected
    /\ sockets' = [sockets EXCEPT ![s].rooms = @ \cup {eventId}]
    /\ emitted' = <<>>
    /\ inbox' = [t \in Sockets |->
                   IF t = s THEN SelectSeq(emitted, LAMBDA m : m.room = eventId)
                   ELSE <<>>]
    /\ UNCHANGED <<events, items, nextId, stats, reqs, resp, storage, limiter>>
JoinEvent(s, eventId) ==
    /\ sockets[s].connected
    /\ SocketStep([sockets EXCEPT ![s].rooms = @ \cup {eventId}])

\* socket.on('leave-event'): socket.leave(eventId)
LeaveEvent(s, eventId) ==
    /\ sockets[s].connected
    /\ SocketStep([sockets EXCEPT ![s].rooms = @ \ {eventId}])

\* a disconnect that leaves the room registry as it is
DisconnectKeepsRooms(s) ==
    /\ sockets[s].connected
    /\ SocketStep([sockets EXCEPT ![s].connected = FALSE])

\* socket.on('disconnect'): the handler logs; socket.io has removed the
\* connection from its rooms
Disconnect(s) ==
    /\ sockets[s].connected
    /\ SocketStep([sockets EXCEPT ![s] = [connected |-> FALSE, rooms |-> {}]])

----------------------------------------------------------------------------
(* Specifications *)

Actors == Users \cup {NoUser}
Moderators == {"h1", "h2"}
Admins == {"h1", "h2", "adm"}
StatusBodies ==
    {[status |-> s, isFeatured |-> "undef", isPinned |-> "undef", isHidden |-> "undef"] :
        s \in {"", "approved", "rejected"}}

\* the content lifecycle: submissions, listings, moderation, deletion
Next ==
    \/ \E u \in Actors, m \in BOOLEAN : UpdateEvent(u, "E1", m)
    \/ \E u \in Actors, e \in EventIds : Upload(u, e, <<"image">>)
    \/ \E e \in EventIds, pw \in Passwords : GuestUpload(e, pw, "Alice", <<"image">>)
    \/ \E e \in EventIds, pw \in Passwords : PostGuestbook(e, pw, "Alice", "hi")
    \/ \E e \in EventIds, pw \in Passwords : ListMedia(e, pw, FALSE)
    \/ \E e \in EventIds, pw \in Passwords : ListGuestbook(e, pw)
    \/ \E u \in Actors, id \in ItemIds, b \in StatusBodies : PutMedia(u, id, b)
    \/ \E u \in Actors, id \in ItemIds, b \in StatusBodies : PutEntry(u, id, b)
    \/ \E u \in Moderators, id \in ItemIds : DeleteMedia(u, id)
    \/ \E u \in Moderators, id \in ItemIds : DeleteEntry(u, id)
    \/ \E u \in Moderators, e \in EventIds, ids \in SUBSET ItemIds,
          a \in {"approve", "reject"} : BulkMedia(u, e, ids, a)
    \/ \E u \in Moderators, e \in EventIds, ids \in SUBSET ItemIds,
          a \in {"approve", "reject"} : BulkGuestbook(u, e, ids, a)

Spec == Init /\ [][Next]_vars

\* the submissions alone, with every kind of file and message
NextSubmit ==
    \/ \E u \in Actors, e \in EventIds, m \in BOOLEAN : UpdateEvent(u, e, m)
    \/ \E u \in Actors, e \in EventIds, f \in FileLists : Upload(u, e, f)
    \/ \E e \in EventIds, pw \in Passwords, g \in {"", "Alice"}, f \in FileLists :
          GuestUpload(e, pw, g, f)
    \/ \E e \in EventIds, pw \in Passwords, g \in {"", "Alice", "Alice "}, t \in Texts :
          PostGuestbook(e, pw, g, t)
    \/ \E e \in EventIds, pw \in Passwords, g \in {"", "Alice"}, t \in Texts,
          hasFile \in BOOLEAN :
          PostGuestbookAudio(e, pw, g, t, hasFile)

SpecSubmit == Init /\ [][NextSubmit]_vars

\* the bulk actions over items of both events
NextBulk ==
    \/ \E u \in Moderators, e \in EventIds : Upload(u, e, <<"image">>)
    \/ \E e \in EventIds : GuestUpload(e, "secret", "Alice", <<"image">>)
    \/ \E e \in EventIds : PostGuestbook(e, "secret", "Alice", "hi")
    \/ \E u \in Admins, e \in EventIds, ids \in SUBSET ItemIds, a \in BulkActions :
          BulkMedia(u, e, ids, a)
    \/ \E u \in Admins, e \in EventIds, ids \in SUBSET ItemIds, a \in BulkActions :
          BulkGuestbook(u, e, ids, a)

SpecBulk == Init /\ [][NextBulk]_vars

\* the reads of one item, by guests and by users
NextReads ==
    \/ \E m \in BOOLEAN : UpdateEvent("h1", "E1", m)
    \/ GuestUpload("E1", "", "Alice", <<"image">>)
    \/ PostGuestbook("E1", "", "Alice", "hi")
    \/ \E id \in ItemIds, st \in {"approved", "rejected"} :
          PutMedia("h1", id, [status |-> st, isFeatured |-> "undef",
                              isPinned |-> "undef", isHidden |-> "undef"])
    \/ \E u \in Actors, id \in ItemIds : GetMedia(u, id)
    \/ \E u \in Actors, id \in ItemIds : GetEntry(u, id)
    \/ \E u \in Actors, id \in ItemIds : Download(u, id)

SpecReads == Init /\ [][NextReads]_vars

\* connections joining and leaving rooms while handlers publish
NextRooms ==
    \/ \E u \in Moderators, e \in EventIds : Upload(u, e, <<"image">>)
    \/ \E e \in EventIds : PostGuestbook(e, "secret", "Alice", "hi")
    \/ \E u \in Moderators, id \in ItemIds : DeleteMedia(u, id)
    \/ \E u \in Moderators, id \in ItemIds : DeleteEntry(u, id)
    \/ \E s \in Sockets : Connect(s)
    \/ \E s \in Sockets, r \in RoomNames : JoinEvent(s, r)
    \/ \E s \in Sockets, r \in RoomNames : LeaveEvent(s, r)
    \/ \E s \in Sockets : Disconnect(s)

SpecRooms == Init /\ [][NextRooms]_vars

\* Media.countDocuments({event, fileType}) / Guestbook.countDocuments({event})
CountDocsApproved(coll, e, kinds) ==
    Cardinality({i \in ItemIds : /\ InColl(coll, i)
                                 /\ items[i].event = e
                                 /\ items[i].kind \in kinds
                                 /\ items[i].status = "approved"})
CountDocs(coll, e, kinds) ==
    Cardinality({i \in ItemIds : /\ InColl(coll, i)
                                 /\ items[i].event = e
                                 /\ items[i].kind \in kinds})

StatsReply(u, e, code, statistics) ==
    [op |-> "getStats", code |-> code, ids |-> {}, user |-> u, event |-> e,
     statistics |-> statistics]

\* GET /:eventId/stats.  mongoose.Types.ObjectId(eventId) is called without
\* new: where ObjectId is a class the call throws and the request ends in
\* the error handler (callable = FALSE); where it is a plain function the
\* counts are taken, stored in the event and returned (callable = TRUE).
GetStats(u, e, callable) ==
    IF authenticateToken(u) # 0 THEN Refuse(authenticateToken(u))
    ELSE IF requireEventOwnership(u, e) # 0 THEN Refuse(requireEventOwnership(u, e))
    ELSE IF ~callable
    THEN /\ resp' = StatsReply(u, e, 500, stats[e])
         /\ emitted' = <<>>
         /\ UNCHANGED <<events, items, nextId, stats, reqs>>
         /\ Deliver
    ELSE LET counted == [totalPhotos |-> CountDocs("media", e, {"image"}),
                         totalVideos |-> CountDocs("media", e, {"video"}),
                         totalGuestbookEntries |->
                             CountDocs("guestbook", e, {"text", "audio"})]
         IN  /\ stats' = [stats EXCEPT ![e] = counted]
             /\ resp' = StatsReply(u, e, 200, counted)
             /\ emitted' = <<>>
             /\ UNCHANGED <<events, items, nextId, reqs>>
             /\ Deliver

\* uploads, moderation and the statistics of one event
NextStats ==
    \/ \E m \in BOOLEAN : UpdateEvent("h1", "E1", m)
    \/ \E f \in FileLists : GuestUpload("E1", "", "Alice", f)
    \/ \E t \in {"", "hi"} : PostGuestbook("E1", "", "Alice", t)
    \/ \E id \in ItemIds, st \in {"approved", "rejected"} :
          PutMedia("h1", id, [status |-> st, isFeatured |-> "undef",
                              isPinned |-> "undef", isHidden |-> "undef"])
    \/ \E u \in Actors, e \in EventIds, callable \in BOOLEAN : GetStats(u, e, callable)

SpecStats == Init /\ [][NextStats]_vars

\* the largest value a save of a counter may write
MaxCount == 2

ReadOps == {"getMedia", "download"}

\* the counter a request reads and writes
Counter(op, doc) == IF op = "getMedia" THEN doc.views ELSE doc.downloads

\* GET /:mediaId and GET /:mediaId/download up to the findById and the checks
ReadLoad(op, c, u, id) ==
    /\ reqs[c].pc \in {"idle", "done"}
    /\ IF ~InColl("media", id) THEN Refuse(404)
       ELSE IF op = "getMedia" /\ u # NoUser THEN Refuse(500)
       ELSE IF op = "getMedia" /\ items[id].status # "approved" THEN Refuse(404)
       ELSE IF op = "download" /\ ~events[items[id].event].allowDownloads THEN Refuse(403)
       ELSE /\ reqs' = [reqs EXCEPT ![c] =
                          [pc |-> "loaded", op |-> op, coll |-> "media",
                           e |-> items[id].event, id |-> id, name |-> u,
                           snap |-> Counter(op, items[id]), stale |-> FALSE]]
            /\ emitted' = <<>>
            /\ UNCHANGED <<events, items, nextId, stats, resp>>
            /\ Deliver

\* save() of a document whose counter was assigned: $set to the new value
SaveSet(stored, loaded) == loaded + 1

\* incrementViews / incrementDownloads on the loaded document, then the answer
ReadSave(c) ==
    LET r == reqs[c]
    IN  /\ r.pc = "loaded" /\ r.op \in ReadOps
        /\ IF ~InColl("media", r.id)
           THEN \* DocumentNotFoundError
                /\ reqs' = [reqs EXCEPT ![c] = Done(r, 500)]
                /\ resp' = Error(500)
                /\ emitted' = <<>>
                /\ UNCHANGED <<events, items, nextId, stats>>
                /\ Deliver
           ELSE /\ r.snap < MaxCount
                /\ items' = IF r.op = "getMedia"
                             THEN [items EXCEPT ![r.id].views = SaveSet(@, r.snap)]
                             ELSE [items EXCEPT ![r.id].downloads = SaveSet(@, r.snap)]
                /\ reqs' = [reqs EXCEPT ![c] = Done(r, 200)]
                /\ resp' = ReadReply(r.op, r.name, r.id)
                /\ emitted' = <<>>
                /\ UNCHANGED <<events, nextId, stats>>
                /\ Deliver

\* concurrent views and downloads of the media of one event
NextCounters ==
    \/ Upload("h1", "E1", <<"image">>)
    \/ \E id \in ItemIds : DeleteMedia("h1", id)
    \/ \E op \in ReadOps, c \in Clients, id \in ItemIds : ReadLoad(op, c, NoUser, id)
    \/ \E c \in Clients : ReadSave(c)

SpecCounters == Init /\ [][NextCounters]_vars

\* the switches of an event that the guest routes consult
PolicyFields == {"enableGuestbook", "enableAudioMessages", "allowDownloads"}

\* PUT /:eventId with a body that sets one switch
UpdateEventField(u, e, field, value) ==
    IF authenticateToken(u) # 0 THEN Refuse(authenticateToken(u))
    ELSE IF requireEventOwnership(u, e) # 0 THEN Refuse(requireEventOwnership(u, e))
    ELSE /\ events' = [events EXCEPT ![e][field] = value]
         /\ resp' = Reply("updateEvent", 200, {})
         /\ emitted' = <<>>
         /\ UNCHANGED <<items, nextId, stats, reqs>>
         /\ Deliver

\* the guest routes of one event while its host turns the switches
NextPolicy ==
    \/ \E field \in PolicyFields, v \in BOOLEAN : UpdateEventField("h1", "E1", field, v)
    \/ Upload("h1", "E1", <<"image">>)
    \/ \E g \in {"", "Alice"}, t \in {"", "hi"} : PostGuestbook("E1", "", g, t)
    \/ \E t \in {"", "hi"}, hasFile \in BOOLEAN :
          PostGuestbookAudio("E1", "", "Alice", t, hasFile)
    \/ ListGuestbook("E1", "")
    \/ \E id \in ItemIds : Download(NoUser, id)

SpecPolicy == Init /\ [][NextPolicy]_vars

\* the hosts and the photographer; none of them is an admin
Staff == {"h1", "p1", "h2"}

\* the hosts fill their events, and every member of staff tries every
\* moderation route on every item
NextOwners ==
    \/ Upload("h1", "E1", <<"image">>)
    \/ Upload("h2", "E2", <<"image">>)
    \/ \E e \in EventIds : PostGuestbook(e, "secret", "Alice", "hi")
    \/ \E u \in Staff, id \in ItemIds, b \in StatusBodies : PutMedia(u, id, b)
    \/ \E u \in Staff, id \in ItemIds, b \in StatusBodies : PutEntry(u, id, b)
    \/ \E u \in Staff, id \in ItemIds : DeleteMedia(u, id)
    \/ \E u \in Staff, id \in ItemIds : DeleteEntry(u, id)
    \/ \E u \in Staff, e \in EventIds, ids \in SUBSET ItemIds, a \in {"reject", "delete"} :
          BulkMedia(u, e, ids, a)
    \/ \E u \in Staff, e \in EventIds, ids \in SUBSET ItemIds, a \in {"reject", "delete"} :
          BulkGuestbook(u, e, ids, a)

SpecOwners == Init /\ [][NextOwners]_vars

Routes == EventIds \cup {NoEvent}

\* the longest list of comments or replies of one item
MaxComments == 2

\* a method that approves every comment
addCommentApproved(comments, guestName, message, needsApproval) ==
    Append(comments, [guestName |-> guestName, message |-> message,
                      isApproved |-> TRUE])

\* addComment / addReply: interactions.comments.push(...) (for an entry of
\* the guestbook the list is interactions.replies)
addComment(comments, guestName, message, needsApproval) ==
    Append(comments, [guestName |-> guestName, message |-> message,
                      isApproved |-> ~needsApproval])

CommentType(coll) == IF coll = "media" THEN "new-comment" ELSE "new-guestbook-reply"

\* POST /:mediaId/comments and POST /entry/:entryId/replies; e is the event
\* that validateEventAccess resolves for the request
AddComment(coll, e, pw, id, guestName, message) ==
    IF validateEventAccess(e, pw) # 0 THEN Refuse(validateEventAccess(e, pw))
    ELSE IF Trim(guestName) = "" \/ Trim(message) = "" THEN Refuse(400)
    ELSE IF ~InColl(coll, id) THEN Refuse(404)
    ELSE IF items[id].event # e THEN Refuse(403)
    ELSE LET needsApproval == events[e].moderateUploads
         IN  /\ Len(items[id].comments) < MaxComments
             /\ items' = [items EXCEPT ![id].comments =
                             addComment(@, Trim(guestName), Trim(message), needsApproval)]
             /\ reqs' = [d \in Clients |->
                           IF reqs[d].pc = "loaded" /\ reqs[d].coll = coll /\ reqs[d].id = id
                           THEN [reqs[d] EXCEPT !.stale = TRUE]
                           ELSE reqs[d]]
             /\ emitted' = IF ~needsApproval
                           THEN <<[room |-> e, type |-> CommentType(coll), id |-> id,
                                   guestName |-> Trim(guestName),
                                   message |-> Trim(message)]>>
                           ELSE <<>>
             /\ resp' = [op |-> "addComment", code |-> 200, ids |-> {id},
                         needsApproval |-> needsApproval]
             /\ UNCHANGED <<events, nextId, stats>>
             /\ Deliver

\* guests comment on the media and reply to the entries of the events
NextComments ==
    \/ \E e \in EventIds, m \in BOOLEAN : UpdateEvent(events[e].host, e, m)
    \/ \E e \in EventIds : Upload(events[e].host, e, <<"image">>)
    \/ \E e \in EventIds : PostGuestbook(e, "secret", "Alice", "hi")
    \/ \E e \in Routes, id \in ItemIds, g \in {"", "Alice "}, t \in {" ", "hi", "hi "} :
          AddComment("media", e, "secret", id, g, t)
    \/ \E e \in Routes, id \in ItemIds, g \in {"", "Alice "}, t \in {" ", "hi", "hi "} :
          AddComment("guestbook", e, "secret", id, g, t)

SpecComments == Init /\ [][NextComments]_vars


\* asyncHandler: an exception of the handler goes to the error handler, which
\* answers 500; op names the request whose write raised
Raise(op) ==
    /\ resp' = [op |-> "error", code |-> 500, ids |-> {}, failed |-> op]
    /\ emitted' = <<>>
    /\ UNCHANGED <<events, items, nextId, stats, reqs>>
    /\ Deliver

\* the k-th of the files whose save succeeded
Kept(ok, k) == CHOOSE i \in ok : Cardinality({j \in ok : j < i}) = k - 1

\* an upload loop that announces every file, saved or not
AnnouncedAll(ok, n) == n
\* the files announced by the upload loop: emit follows await media.save()
\* inside the try block
Announced(ok, n) == Cardinality(ok)

\* POST /api/media/guest-upload/:eventId where the save of the files outside
\* ok raises: the catch block of the loop logs the error and goes on
GuestUploadSome(e, pw, guestName, files, ok) ==
    LET n == Len(files)
        code == IF validateEventAccess(e, pw) # 0 THEN validateEventAccess(e, pw)
                ELSE IF n = 0 THEN 400
                ELSE IF guestName = "" THEN 400
                ELSE 201
        status == GuestStatus(events[e])
        m == Cardinality(ok)
        saved == nextId .. (nextId + m - 1)
        uploaded == IF status = "approved" THEN ok ELSE {}
    IN  /\ ok \subseteq 1..n
        /\ nextId + n - 1 <= NumItems
        /\ IF code = 201
           THEN /\ items' = [i \in ItemIds |->
                               IF i \in saved
                               THEN MediaDoc(e, files[Kept(ok, i - nextId + 1)], status)
                               ELSE items[i]]
                /\ nextId' = nextId + m
                /\ emitted' = IF status = "approved"
                              THEN NewMediaMsgs(e, nextId, Announced(ok, n)) ELSE <<>>
                /\ stats' = IF uploaded # {}
                            THEN IncMediaStats(e, CountType(files, uploaded, "image"),
                                                  CountType(files, uploaded, "video"))
                            ELSE stats
                /\ resp' = [op |-> "guestUpload", code |-> 201,
                            ids |-> IF status = "approved" THEN saved ELSE {},
                            failed |-> (1..n) \ ok]
                /\ UNCHANGED <<events, reqs>>
                /\ Deliver
           ELSE Refuse(code)

\* POST /api/guestbook/:eventId where guestbookEntry.save() raises
PostGuestbookRaises(e, pw, guestName, textMessage) ==
    IF validateEventAccess(e, pw) # 0 THEN Refuse(validateEventAccess(e, pw))
    ELSE IF Trim(guestName) = "" THEN Refuse(400)
    ELSE IF ~events[e].enableGuestbook THEN Refuse(403)
    ELSE IF Trim(textMessage) = "" THEN Refuse(400)
    ELSE Raise("postGuestbook")

\* PUT /:mediaId where findByIdAndUpdate raises
PutMediaRaises(u, id) ==
    IF authenticateToken(u) # 0 THEN Refuse(401)
    ELSE IF ~InColl("media", id) THEN Refuse(404)
    ELSE IF ~isOwner(u, items[id].event) THEN Refuse(403)
    ELSE Raise("putMedia")

\* DELETE /:mediaId where findByIdAndDelete raises: the file has been
\* removed from storage by then
DeleteMediaRaises(u, id) ==
    IF authenticateToken(u) # 0 THEN Refuse(401)
    ELSE IF ~InColl("media", id) THEN Refuse(404)
    ELSE IF ~isOwner(u, items[id].event) THEN Refuse(403)
    ELSE /\ resp' = [op |-> "error", code |-> 500, ids |-> {}, failed |-> "deleteMedia"]
         /\ emitted' = <<>>
         /\ UNCHANGED <<events, items, nextId, stats, reqs>>
         /\ DeliverStorage({}, {id})

\* the requests of one event while some writes to the database raise
NextFailures ==
    \/ \E m \in BOOLEAN : UpdateEvent("h1", "E1", m)
    \/ \E files \in {<<"image">>, <<"image", "video">>}, ok \in SUBSET (1..MaxFiles) :
          GuestUploadSome("E1", "", "Alice", files, ok)
    \/ PostGuestbook("E1", "", "Alice", "hi")
    \/ PostGuestbookRaises("E1", "", "Alice", "hi")
    \/ \E id \in ItemIds :
          PutMedia("h1", id, [status |-> "approved", isFeatured |-> "undef",
                              isPinned |-> "undef", isHidden |-> "undef"])
    \/ \E id \in ItemIds : PutMediaRaises("h1", id)
    \/ \E id \in ItemIds : DeleteMedia("h1", id)
    \/ \E id \in ItemIds : DeleteMediaRaises("h1", id)
    \/ \E id \in ItemIds : LikeLoad("media", 1, "E1", "", id, "Alice")
    \/ LikeSave("media", 1)

SpecFailures == Init /\ [][NextFailures]_vars


\* the records a delete removes, given the files for which deleteFile raised:
\* here only those whose file is gone
RecordsDeletedIfDestroyed(hit, kept) == hit \ kept
\* the catch block logs the error and the delete of the records goes on
RecordsDeleted(hit, kept) == hit

DeleteReply(op, ids, kept) ==
    [op |-> op, code |-> 200, ids |-> {}, req |-> ids, kept |-> kept]

\* DELETE /:mediaId; destroyed says whether deleteFile succeeded
DeleteMediaStorage(u, id, destroyed) ==
    IF authenticateToken(u) # 0 THEN Refuse(401)
    ELSE IF ~InColl("media", id) THEN Refuse(404)
    ELSE IF ~isOwner(u, items[id].event) THEN Refuse(403)
    ELSE LET e == items[id].event
             kept == IF destroyed THEN {} ELSE {id}
             gone == RecordsDeleted({id}, kept)
         IN  /\ items' = [i \in ItemIds |-> IF i \in gone THEN NoDoc ELSE items[i]]
             /\ stats' = IF items[id].kind = "image"
                         THEN [stats EXCEPT ![e].totalPhotos = @ - 1]
                         ELSE IF items[id].kind = "video"
                         THEN [stats EXCEPT ![e].totalVideos = @ - 1]
                         ELSE stats
             /\ emitted' = <<Msg(e, "media-deleted", id)>>
             /\ resp' = DeleteReply("deleteMedia", {id}, kept)
             /\ UNCHANGED <<events, nextId, reqs>>
             /\ DeliverStorage(kept, {})

\* DELETE /entry/:entryId; deleteFile is called for entries with an audio file
DeleteEntryStorage(u, id, destroyed) ==
    IF authenticateToken(u) # 0 THEN Refuse(401)
    ELSE IF ~InColl("guestbook", id) THEN Refuse(404)
    ELSE IF ~isOwner(u, items[id].event) THEN Refuse(403)
    ELSE LET e == items[id].event
             kept == IF HasPayload(items[id]) /\ ~destroyed THEN {id} ELSE {}
             gone == RecordsDeleted({id}, kept)
         IN  /\ items' = [i \in ItemIds |-> IF i \in gone THEN NoDoc ELSE items[i]]
             /\ stats' = [stats EXCEPT ![e].totalGuestbookEntries = @ - 1]
             /\ emitted' = <<Msg(e, "guestbook-deleted", id)>>
             /\ resp' = DeleteReply("deleteEntry", {id}, kept)
             /\ UNCHANGED <<events, nextId, reqs>>
             /\ DeliverStorage(kept, {})

\* PATCH /bulk-action/:eventId with action delete; failing are the listed
\* items for which deleteFile raises
BulkMediaDelete(u, e, mediaIds, failing) ==
    IF authenticateToken(u) # 0 THEN Refuse(401)
    ELSE IF requireEventOwnership(u, e) # 0 THEN Refuse(requireEventOwnership(u, e))
    ELSE IF mediaIds = {} THEN Refuse(400)
    ELSE LET hit == BulkFilter("media", mediaIds, e)
             kept == hit \cap failing
             gone == RecordsDeleted(hit, kept)
         IN  /\ items' = [i \in ItemIds |-> IF i \in gone THEN NoDoc ELSE items[i]]
             /\ emitted' = <<>>
             /\ resp' = DeleteReply("bulkMedia", hit, kept)
             /\ UNCHANGED <<events, nextId, stats, reqs>>
             /\ DeliverStorage(kept, {})

\* owners delete the items of their event while the storage service fails
\* now and then
NextStorage ==
    \/ \E f \in {<<"image">>, <<"image", "video">>} : Upload("h1", "E1", f)
    \/ \E t \in {"", "hi"}, hasFile \in BOOLEAN :
          PostGuestbookAudio("E1", "", "Alice", t, hasFile)
    \/ PostGuestbook("E1", "", "Alice", "hi")
    \/ \E u \in {"h1", "h2"}, id \in ItemIds, destroyed \in BOOLEAN :
          DeleteMediaStorage(u, id, destroyed)
    \/ \E u \in {"h1", "h2"}, id \in ItemIds, destroyed \in BOOLEAN :
          DeleteEntryStorage(u, id, destroyed)
    \/ \E u \in {"h1", "h2"}, ids \in SUBSET ItemIds, failing \in SUBSET ItemIds :
          BulkMediaDelete(u, "E1", ids, failing)

SpecStorage == Init /\ [][NextStorage]_vars


\* a limit test that lets one request more through
OverLimitStrict(n) == n > MaxRequests
\* validRequests.length >= maxRequests
OverLimit(n) == n >= MaxRequests

\* userRequests.filter(time => now - time < windowMs)
validRequests(userRequests, now) ==
    SelectSeq(userRequests, LAMBDA time : now - time < WindowMs)

\* Date.now() advances
Tick ==
    /\ limiter.now < MaxNow
    /\ limiter' = [limiter EXCEPT !.now = @ + 1]
    /\ UNCHANGED <<events, items, nextId, stats, reqs, resp, emitted, sockets, inbox,
                   storage>>

\* the middleware userRateLimit returns, for a request of identifier a: 429,
\* or the arrival is recorded and next() runs the handler
RateLimit(a) ==
    LET now == limiter.now
        valid == validRequests(limiter.requests[a], now)
    IN  /\ IF OverLimit(Len(valid))
           THEN /\ limiter' = limiter
                /\ resp' = [op |-> "rateLimit", code |-> 429, ids |-> {}, identifier |-> a]
           ELSE /\ limiter' = [limiter EXCEPT !.requests[a] = Append(valid, now),
                                              !.passed[a] = Append(@, now)]
                /\ resp' = [op |-> "rateLimit", code |-> 200, ids |-> {}, identifier |-> a]
        /\ emitted' = <<>>
        /\ inbox' = [s \in Sockets |-> <<>>]
        /\ UNCHANGED <<events, items, nextId, stats, reqs, sockets, storage>>

\* requests of two identifiers arrive at one limited route as time passes
NextLimit ==
    \/ Tick
    \/ \E a \in Identifiers : RateLimit(a)

SpecLimit == Init /\ [][NextLimit]_vars


ApprovedType(coll) == IF coll = "media" THEN "media-approved" ELSE "guestbook-approved"

\* PUT /:mediaId and PUT /entry/:entryId up to the permission check: the
\* request holds the document it loaded
PutLoad(coll, c, u, id) ==
    /\ reqs[c].pc \in {"idle", "done"}
    /\ IF authenticateToken(u) # 0 THEN Refuse(401)
       ELSE IF ~InColl(coll, id) THEN Refuse(404)
       ELSE IF ~isOwner(u, items[id].event) THEN Refuse(403)
       ELSE /\ reqs' = [reqs EXCEPT ![c] =
                          [pc |-> "loaded", op |-> "put", coll |-> coll,
                           e |-> items[id].event, id |-> id, name |-> u,
                           snap |-> items[id].status, stale |-> FALSE]]
            /\ emitted' = <<>>
            /\ UNCHANGED <<events, items, nextId, stats, resp>>
            /\ Deliver

\* findByIdAndUpdate with the body of the request, then the comparison of
\* req.body.status with the status that was loaded, the message and the answer
PutSave(coll, c, body) ==
    LET r == reqs[c]
    IN  /\ r.pc = "loaded" /\ r.op = "put" /\ r.coll = coll
        /\ items' = IF InColl(coll, r.id)
                    THEN [items EXCEPT ![r.id] =
                            IF coll = "media" THEN UpdateMediaDoc(@, body)
                            ELSE UpdateEntryDoc(@, body)]
                    ELSE items
        /\ emitted' = IF BecameVisible(body.status, r.snap)
                      THEN <<Msg(r.e, ApprovedType(coll), r.id)>>
                      ELSE <<>>
        /\ reqs' = [reqs EXCEPT ![c] = Done(r, 200)]
        /\ resp' = PutReply(IF coll = "media" THEN "putMedia" ELSE "putEntry", r.id, body)
        /\ UNCHANGED <<events, nextId, stats>>
        /\ Deliver

\* two moderators of one event work through its pending items at once
NextApprove ==
    \/ UpdateEvent("h1", "E1", TRUE)
    \/ GuestUpload("E1", "", "Alice", <<"image">>)
    \/ PostGuestbook("E1", "", "Alice", "hi")
    \/ \E coll \in {"media", "guestbook"}, c \in Clients, u \in {"h1", "p1"}, id \in ItemIds :
          PutLoad(coll, c, u, id)
    \/ \E coll \in {"media", "guestbook"}, c \in Clients, st \in {"approved", "rejected"} :
          PutSave(coll, c, [status |-> st, isFeatured |-> "undef",
                            isPinned |-> "undef", isHidden |-> "undef"])

SpecApprove == Init /\ [][NextApprove]_vars


\* requests that carry neither a token nor an event password, on the content
\* of both events
NextPrivate ==
    \/ \E e \in EventIds : Upload(events[e].host, e, <<"image">>)
    \/ \E e \in EventIds : PostGuestbook(e, "secret", "Alice", "hi")
    \/ \E e \in EventIds : ListMedia(e, "", FALSE)
    \/ \E e \in EventIds : ListGuestbook(e, "")
    \/ \E id \in ItemIds : GetMedia(NoUser, id)
    \/ \E id \in ItemIds : GetEntry(NoUser, id)
    \/ \E id \in ItemIds : Download(NoUser, id)

SpecPrivate == Init /\ [][NextPrivate]_vars


\* the routes of one event that write its statistics, and moderation
NextTotals ==
    \/ \E m \in BOOLEAN : UpdateEvent("h1", "E1", m)
    \/ \E f \in {<<"image">>, <<"video">>} : Upload("h1", "E1", f)
    \/ \E f \in {<<"image">>, <<"video">>} : GuestUpload("E1", "", "Alice", f)
    \/ PostGuestbook("E1", "", "Alice", "hi")
    \/ \E id \in ItemIds, st \in {"approved", "rejected"} :
          PutMedia("h1", id, [status |-> st, isFeatured |-> "undef",
                              isPinned |-> "undef", isHidden |-> "undef"])
    \/ \E id \in ItemIds : DeleteMedia("h1", id)
    \/ \E id \in ItemIds : DeleteEntry("h1", id)
    \/ \E ids \in SUBSET ItemIds : BulkMedia("h1", "E1", ids, "delete")
    \/ \E ids \in SUBSET ItemIds : BulkGuestbook("h1", "E1", ids, "delete")

SpecTotals == Init /\ [][NextTotals]_vars


\* the switches of an event for likes and comments
InteractionFields == {"allowLikes", "allowComments"}

\* guests like and comment the media of an event whose host turns likes and
\* comments on and off
NextInteractions ==
    \/ \E field \in InteractionFields, v \in BOOLEAN :
          UpdateEventField("h1", "E1", field, v)
    \/ Upload("h1", "E1", <<"image">>)
    \/ \E id \in ItemIds, g \in {"Alice", "Bob"} : LikeLoad("media", 1, "E1", "", id, g)
    \/ LikeSave("media", 1)
    \/ \E id \in ItemIds : AddComment("media", "E1", "", id, "Alice", "hi")

SpecInteractions == Init /\ [][NextInteractions]_vars

\* req.body.status of an update: any string is accepted
AnyStatusBodies ==
    {[status |-> st, isFeatured |-> "undef", isPinned |-> "undef", isHidden |-> "undef"] :
        st \in {"", "pending", "approved", "rejected", "archived"}}

\* single-item updates with any status value
NextStatus ==
    \/ \E u \in Moderators, e \in EventIds : Upload(u, e, <<"image">>)
    \/ \E e \in EventIds : PostGuestbook(e, "secret", "Alice", "hi")
    \/ \E u \in Actors, id \in ItemIds, b \in AnyStatusBodies : PutMedia(u, id, b)
    \/ \E u \in Actors, id \in ItemIds, b \in AnyStatusBodies : PutEntry(u, id, b)
    \/ \E u \in Admins, e \in EventIds, ids \in SUBSET ItemIds,
          a \in {"approve", "reject"} : BulkMedia(u, e, ids, a)

SpecStatus == Init /\ [][NextStatus]_vars


\* like requests of several clients, interleaved at their await points
NextLikeOnly ==
    \/ Upload("h1", "E1", <<"image">>)
    \/ \E c \in Clients, e \in Routes, id \in ItemIds, g \in RawNames :
          LikeLoad("media", c, e, "secret", id, g)
    \/ \E c \in Clients : LikeSave("media", c)

SpecLikeOnly == Init /\ [][NextLikeOnly]_vars

\* like and unlike requests on media and guestbook entries, interleaved
NextLikes ==
    \/ Upload("h1", "E1", <<"image">>)
    \/ PostGuestbook("E1", "", "Alice", "hi")
    \/ \E c \in Clients, id \in ItemIds, g \in {"Alice", "Alice "} :
          LikeLoad("media", c, "E1", "", id, g)
    \/ \E c \in Clients : LikeSave("media", c)
    \/ \E c \in Clients, id \in ItemIds : UnlikeLoad("media", c, "E1", "", id, "Alice")
    \/ \E c \in Clients : UnlikeSave("media", c)
    \/ \E c \in Clients, id \in ItemIds, g \in {"Alice", "Alice "} :
          LikeLoad("guestbook", c, "E1", "", id, g)
    \/ \E c \in Clients : LikeSave("guestbook", c)
    \/ \E c \in Clients, id \in ItemIds : UnlikeLoad("guestbook", c, "E1", "", id, "Alice")
    \/ \E c \in Clients : UnlikeSave("guestbook", c)

SpecLikes == Init /\ [][NextLikes]_vars

----------------------------------------------------------------------------
(* Submissions and the moderation policy *)

GuestOps == {"guestUpload", "postGuestbook", "postGuestbookAudio"}

\* the documents the step has saved
Saved == nextId .. (nextId' - 1)

----------------------------------------------------------------------------
(* What guests are shown *)

VisibleTypes == {"new-media", "new-guestbook-entry", "media-approved",
                 "guestbook-approved"}

\* C3: after any sequence of uploads, guestbook posts, single and bulk
\* moderation actions and deletions, every item returned by the guest-facing
\* media listing or guestbook listing has stored status approved, and every
\* new-media, new-guestbook-entry, media-approved or guestbook-approved message
\* carries an item whose stored status is approved when it is emitted.
C3_OnlyApprovedShown ==
    /\ resp.op \in {"listMedia", "listGuestbook"} =>
          \A i \in resp.ids : items[i].status = "approved"
    /\ \A k \in 1..Len(emitted) :
          emitted[k].type \in VisibleTypes =>
             items[emitted[k].id].status = "approved"

\* a media listing returned an item of an event that also holds a rejected one
C3_Witness ==
    /\ resp.op = "listMedia" /\ resp.ids # {}
    /\ \E i \in ItemIds, j \in resp.ids :
          /\ InColl("media", i) /\ items[i].status = "rejected"
          /\ items[i].event = items[j].event
          /\ i \notin resp.ids

----------------------------------------------------------------------------
(* The approval broadcast *)

\* C5: an update request that sets status approved emits media-approved /
\* guestbook-approved exactly when the stored status before the request was
\* not approved: approving a pending item stores approved with one broadcast,
\* approving it again broadcasts nothing.
C5_ApproveBroadcastsOnce ==
    [][\A id \in ItemIds :
         (resp'.op \in {"putMedia", "putEntry"} /\ resp'.ids = {id}
            /\ resp'.status = "approved") =>
            /\ items'[id].status = "approved"
            /\ emitted' = IF items[id].status # "approved"
                          THEN <<Msg(items[id].event,
                                     ApprovedType(items[id].coll), id)>>
                          ELSE <<>>]_vars

\* an approved guestbook entry was approved again, with no broadcast
C5_Witness ==
    /\ resp.op = "putEntry" /\ resp.status = "approved"
    /\ emitted = <<>>
    /\ \A i \in resp.ids : /\ items[i].status = "approved"
                            /\ events[items[i].event].moderateUploads

\* the approval messages of item i among the messages of the step
ApprovalMsgs(msgs, i) ==
    {k \in 1..Len(msgs) :
        msgs[k].id = i /\ msgs[k].type \in {"media-approved", "guestbook-approved"}}

\* C6: every transition of an item from pending or rejected into approved,
\* by a single-item update or by a bulk approve action, emits one
\* media-approved / guestbook-approved message to the owning event's room and
\* none to any other room.
C6_EveryApprovalBroadcast ==
    [][\A i \in ItemIds :
         (items[i].coll # "none" /\ items[i].status \in {"pending", "rejected"}
            /\ items'[i].coll = items[i].coll /\ items'[i].status = "approved") =>
            /\ Cardinality(ApprovalMsgs(emitted', i)) = 1
            /\ \A k \in ApprovalMsgs(emitted', i) :
                  emitted'[k] = Msg(items[i].event, ApprovedType(items[i].coll), i)]_vars

----------------------------------------------------------------------------
(* The frame of a bulk action *)

\* what the action leaves in the place of doc
BulkApplied(doc, after, action) ==
    CASE action = "approve" -> after.coll = doc.coll /\ after.status = "approved"
      [] action = "reject" -> after.coll = doc.coll /\ after.status = "rejected"
      [] action = "feature" -> after.coll = doc.coll /\ after.isFeatured
      [] action = "unfeature" -> after.coll = doc.coll /\ ~after.isFeatured
      [] action = "pin" -> after.coll = doc.coll /\ after.isPinned
      [] action = "unpin" -> after.coll = doc.coll /\ ~after.isPinned
      [] action = "delete" -> after = NoDoc

BulkColl(op) == IF op = "bulkMedia" THEN "media" ELSE "guestbook"

\* C7: a bulk action issued for event E with a list of item ids changes or
\* deletes only those listed items that belong to E; a listed item of another
\* event is left unchanged and does not prevent the action on the items of E.
C7_BulkFrame ==
    [][resp'.op \in {"bulkMedia", "bulkGuestbook"} =>
         \A i \in ItemIds :
            IF i \in resp'.req /\ items[i].coll = BulkColl(resp'.op)
                 /\ items[i].event = resp'.event
            THEN BulkApplied(items[i], items'[i], resp'.action)
            ELSE items'[i] = items[i]]_vars

\* a bulk reject listed an item of each event and rejected only its own
C7_Witness ==
    /\ resp.op = "bulkMedia" /\ resp.action = "reject"
    /\ \E i \in resp.req, j \in resp.req :
          /\ InColl("media", i) /\ items[i].event = resp.event
          /\ items[i].status = "rejected"
          /\ InColl("media", j) /\ items[j].event # resp.event
          /\ items[j].status = "approved"

----------------------------------------------------------------------------
(* Who reads an item that is not approved *)

\* the host of the event, one of its photographers, or an admin
MayModerate(u, e) ==
    u # NoUser /\ (events[e].host = u \/ u \in events[e].photographers
                     \/ role(u) = "admin")

\* C4: an item whose status is pending or rejected is never returned to a
\* request that is not authenticated as the owning event's host, one of its
\* photographers, or an admin, by the single-media read, the single
\* guestbook-entry read or the media download.
C4_HeldItemsNotRead ==
    (resp.op \in {"getMedia", "getEntry", "download"} /\ resp.code = 200) =>
       \A i \in resp.ids :
          items[i].status \in {"pending", "rejected"} =>
             MayModerate(resp.user, items[i].event)

\* the same, for the single-media read alone
GetMediaHidesHeldItems ==
    (resp.op = "getMedia" /\ resp.code = 200) =>
       \A i \in resp.ids : items[i].status = "approved"

----------------------------------------------------------------------------
(* Likes: one entry per guest name *)

\* the number of entries of a like array that carry the name
Entries(likes, guestName) ==
    Cardinality({k \in 1..Len(likes) : likes[k] = guestName})

\* C8: calling addLike on an item twice in sequence with the same guest name
\* leaves exactly one like entry for that name: the first call adds one
\* entry, the second call is a successful no-op that changes nothing.
\* A call is in sequence when the array it loaded is still the stored one.
C8_AddLikeIdempotent ==
    [][\A c \in Clients :
         LET r == reqs[c] IN
         (r.pc = "loaded" /\ r.op = "like" /\ reqs'[c].pc = "done"
            /\ items[r.id].likes = r.snap) =>
            /\ reqs'[c].code = 200
            /\ IF Entries(r.snap, r.name) = 0
               THEN /\ Len(items'[r.id].likes) = Len(r.snap) + 1
                    /\ Entries(items'[r.id].likes, r.name) = 1
               ELSE items'[r.id] = items[r.id]
            /\ addLike(addLike(r.snap, r.name), r.name) = addLike(r.snap, r.name)]_vars

\* a second like of the same name was answered 200 and the name has one entry
C8_Witness ==
    \E c \in Clients :
       /\ reqs[c].pc = "done" /\ reqs[c].op = "like" /\ reqs[c].code = 200
       /\ Entries(reqs[c].snap, reqs[c].name) = 1
       /\ items[reqs[c].id].likes = reqs[c].snap

----------------------------------------------------------------------------
(* Rooms *)

\* C11: a connection that has joined event A's room and has not joined
\* event B's room never receives a message published for event B, for every
\* event type and every sequence of join, leave and publish operations.
C11_RoomIsolation ==
    \A s \in Sockets, e \in EventIds :
       e \notin sockets[s].rooms =>
          \A k \in 1..Len(inbox[s]) : inbox[s][k].room # e

\* a message for E2 reached the connection in E2's room and not the
\* connection that is in E1's room only
C11_Witness ==
    \E s \in Sockets, t \in Sockets :
       /\ sockets[s].rooms = {"E1"} /\ sockets[t].rooms = {"E2"}
       /\ \E k \in 1..Len(emitted) : emitted[k].room = "E2"
       /\ inbox[s] = <<>> /\ inbox[t] = emitted

\* the messages of a step that are for a room the connection is in
ForMember(msgs, s) ==
    SelectSeq(msgs, LAMBDA m : sockets[s].connected /\ m.room \in sockets[s].rooms)

\* C12: the connections that receive a published message are exactly the
\* members of the event's room at the moment of the publish call: every
\* member receives it, and a connection that joins afterwards never receives
\* that message (no replay or backlog).
C12_DeliveredToMembersOnly ==
    [][/\ \A s \in Sockets : inbox'[s] = ForMember(emitted', s)
       /\ sockets' # sockets => \A s \in Sockets : inbox'[s] = <<>>]_vars

\* a connection joined the room of an event after an upload to it was
\* published, and has received nothing
C12_Witness ==
    /\ resp.op = "upload" /\ resp.code = 201 /\ emitted = <<>>
    /\ \E s \in Sockets, i \in resp.ids :
          /\ InColl("media", i)
          /\ items[i].event \in sockets[s].rooms
          /\ inbox[s] = <<>>
          /\ \E t \in Sockets : t # s /\ items[i].event \in sockets[t].rooms

----------------------------------------------------------------------------
(* Deletions *)

DeletedType(coll) == IF coll = "media" THEN "media-deleted" ELSE "guestbook-deleted"

\* C13: every deletion of a media item or guestbook entry by an owner, by
\* the single-item delete or by a bulk delete action, sends a media-deleted /
\* guestbook-deleted message with the item's id to the owning event's room,
\* and no other message about the item is emitted after its deletion.
C13_DeletionsAnnounced ==
    [][\A i \in ItemIds :
         /\ (items[i] # NoDoc /\ items'[i] = NoDoc) =>
               \E k \in 1..Len(emitted') :
                  emitted'[k] = Msg(items[i].event, DeletedType(items[i].coll), i)
         /\ (i < nextId /\ items[i] = NoDoc) =>
               \A k \in 1..Len(emitted') : emitted'[k].id # i]_vars

\* the same, for the single-item deletes alone
SingleDeleteAnnounced ==
    [][\A i \in ItemIds :
         (resp'.op \in {"deleteMedia", "deleteEntry"} /\ items[i] # NoDoc
            /\ items'[i] = NoDoc) =>
            emitted' = <<Msg(items[i].event, DeletedType(items[i].coll), i)>>]_vars

----------------------------------------------------------------------------
(* Guestbook posts without moderation *)

\* C14: when the event's moderateUploads policy is false, a guest guestbook
\* text entry is stored with status approved immediately and exactly one
\* new-guestbook-entry message, carrying the entry's guest name and message,
\* is emitted to that event's room.
C14_UnmoderatedEntryBroadcast ==
    [][(resp'.op = "postGuestbook" /\ resp'.code = 201) =>
         /\ Saved = {nextId}
         /\ LET entry == items'[nextId] IN
            ~events[entry.event].moderateUploads =>
               /\ entry.status = "approved"
               /\ entry.guestName # "" /\ entry.textMessage # ""
               /\ emitted' = <<[room |-> entry.event,
                                type |-> "new-guestbook-entry", id |-> nextId,
                                guestName |-> entry.guestName,
                                textMessage |-> entry.textMessage]>>]_vars

\* Alice's entry "hi" was stored approved and announced once to its room
C14_Witness ==
    /\ resp.op = "postGuestbook" /\ resp.code = 201
    /\ Len(emitted) = 1
    /\ emitted[1].type = "new-guestbook-entry"
    /\ emitted[1].guestName = "Alice" /\ emitted[1].textMessage = "hi"
    /\ items[emitted[1].id].status = "approved"
    /\ emitted[1].room = items[emitted[1].id].event
    /\ ~events[emitted[1].room].moderateUploads

----------------------------------------------------------------------------
(* The values of status *)

\* C15: moderation only moves items into approved or rejected: after an item
\* is created, no operation sets its status to pending or to a value outside
\* {pending, approved, rejected}, so an item that has left pending never
\* returns to it.
C15_StatusOnlyForward ==
    [][\A i \in ItemIds :
         (items[i] # NoDoc /\ items'[i] # NoDoc) =>
            /\ items'[i].status \in Statuses
            /\ items'[i].status = "pending" => items[i].status = "pending"]_vars

\* the same, for the bulk actions alone
BulkStatusOnlyForward ==
    [][resp'.op \in {"bulkMedia", "bulkGuestbook"} =>
         \A i \in ItemIds :
            (items[i] # NoDoc /\ items'[i] # NoDoc) =>
               /\ items'[i].status \in Statuses
               /\ items'[i].status = "pending" => items[i].status = "pending"]_vars

----------------------------------------------------------------------------
(* Statistics *)

\* C16: the statistics recomputation for an event yields totalPhotos,
\* totalVideos and totalGuestbookEntries equal to the number of that event's
\* items of the respective kind whose status is approved; pending and
\* rejected items are not counted.
C16_StatsCountApproved ==
    [][(resp'.op = "getStats") =>
         /\ resp'.code = 200
         /\ resp'.statistics =
              [totalPhotos |-> CountDocsApproved("media", resp'.event, {"image"}),
               totalVideos |-> CountDocsApproved("media", resp'.event, {"video"}),
               totalGuestbookEntries |->
                   CountDocsApproved("guestbook", resp'.event, {"text", "audio"})]]_vars

\* the answers that do carry counts are wrong as well
StatsAnswersCountApproved ==
    [][(resp'.op = "getStats" /\ resp'.code = 200) =>
         resp'.statistics.totalPhotos =
             CountDocsApproved("media", resp'.event, {"image"})]_vars

\* every item is counted, whatever its status
StatsCountEveryItem ==
    [][(resp'.op = "getStats" /\ resp'.code = 200) =>
         /\ resp'.statistics.totalPhotos = CountDocs("media", resp'.event, {"image"})
         /\ stats'[resp'.event] = resp'.statistics]_vars

----------------------------------------------------------------------------
(* View and download counters *)

\* C17: the views and downloads counters of a media item never decrease: for
\* every interleaving of concurrent view and download requests (each being
\* load item, add 1, save), the stored counter after any step is greater than
\* or equal to its value before that step.
C17_CountersNeverDecrease ==
    [][\A i \in ItemIds :
         (InColl("media", i) /\ items'[i] # NoDoc) =>
            /\ items'[i].views >= items[i].views
            /\ items'[i].downloads >= items[i].downloads]_vars

\* every successful save stores the value the request loaded, plus one
SaveAloneAddsOne ==
    [][\A c \in Clients :
         (/\ reqs[c].pc = "loaded" /\ reqs[c].op \in ReadOps
          /\ reqs'[c].pc = "done" /\ reqs'[c].code = 200) =>
            Counter(reqs[c].op, items'[reqs[c].id]) = reqs[c].snap + 1]_vars

----------------------------------------------------------------------------
(* Event policy *)

\* the request is refused and leaves no trace
RefusedUntouched ==
    /\ resp'.code >= 400
    /\ UNCHANGED <<items, nextId, stats>>
    /\ emitted' = <<>>

\* C18: a request that violates event policy (guestbook post or listing
\* while enableGuestbook is false, audio message while enableAudioMessages is
\* false, download while allowDownloads is false) is rejected with an error
\* before any state change: no item is created, no counter is incremented
\* and no message is broadcast.
C18_PolicyViolationsRefused ==
    [][/\ \A g \in {"", "Alice"}, t \in {"", "hi"} :
            (~events["E1"].enableGuestbook /\ PostGuestbook("E1", "", g, t))
               => RefusedUntouched
       /\ (~events["E1"].enableGuestbook /\ ListGuestbook("E1", ""))
               => RefusedUntouched
       /\ \A t \in {"", "hi"}, hasFile \in BOOLEAN :
            (/\ ~events["E1"].enableGuestbook \/ ~events["E1"].enableAudioMessages
             /\ PostGuestbookAudio("E1", "", "Alice", t, hasFile))
               => RefusedUntouched
       /\ \A id \in ItemIds :
            (/\ InColl("media", id)
             /\ ~events[items[id].event].allowDownloads
             /\ Download(NoUser, id))
               => RefusedUntouched]_vars

\* a refused request after the host has switched a policy off and items exist
C18_Witness ==
    /\ resp = Error(403)
    /\ nextId > 1
    /\ \/ ~events["E1"].enableGuestbook
       \/ ~events["E1"].enableAudioMessages
       \/ ~events["E1"].allowDownloads

----------------------------------------------------------------------------
(* Ownership *)

\* u is authenticated and is neither the host nor a photographer of event e
\* nor an admin
Stranger(u, e) ==
    /\ u \in Users
    /\ events[e].host # u
    /\ u \notin events[e].photographers
    /\ role(u) # "admin"

\* answered with an authorization error, and nothing changed
Denied ==
    /\ resp' = Error(403)
    /\ UNCHANGED <<events, items, nextId, stats>>
    /\ emitted' = <<>>

\* item id and the statistics of its event are as before, nothing is emitted
Untouched(id) ==
    /\ items'[id] = items[id]
    /\ stats'[items[id].event] = stats[items[id].event]
    /\ emitted' = <<>>

\* the single-item routes refuse a stranger
SingleRoutesDeny(u, id) ==
    /\ InColl("media", id) =>
          /\ \A b \in StatusBodies : PutMedia(u, id, b) => Denied
          /\ DeleteMedia(u, id) => Denied
    /\ InColl("guestbook", id) =>
          /\ \A b \in StatusBodies : PutEntry(u, id, b) => Denied
          /\ DeleteEntry(u, id) => Denied

\* C19: a moderation, update, delete or bulk action on an item attempted by
\* an authenticated user who is neither the host nor a photographer of the
\* item's event nor an admin is answered with an authorization error and
\* changes nothing: the item's status, flags and existence, the event
\* statistics and the set of emitted messages are all unchanged.
C19_StrangersDenied ==
    [][\A u \in Staff, id \in ItemIds :
         (items[id] # NoDoc /\ Stranger(u, items[id].event)) =>
            /\ SingleRoutesDeny(u, id)
            /\ \A e \in EventIds, ids \in SUBSET ItemIds, a \in {"reject", "delete"} :
                  (/\ id \in ids
                   /\ \/ InColl("media", id) /\ BulkMedia(u, e, ids, a)
                      \/ InColl("guestbook", id) /\ BulkGuestbook(u, e, ids, a))
                     => Denied]_vars

\* C19, amended: the single-item routes and a bulk request addressed to the
\* item's event answer a stranger with an authorization error and change
\* nothing; a bulk request that names the item but is addressed to another
\* event leaves the item, the statistics of its event and the emitted
\* messages unchanged, whatever its answer.
C19_StrangersChangeNothing ==
    [][\A u \in Staff, id \in ItemIds :
         (items[id] # NoDoc /\ Stranger(u, items[id].event)) =>
            /\ SingleRoutesDeny(u, id)
            /\ \A e \in EventIds, ids \in SUBSET ItemIds, a \in {"reject", "delete"} :
                  (/\ id \in ids
                   /\ \/ InColl("media", id) /\ BulkMedia(u, e, ids, a)
                      \/ InColl("guestbook", id) /\ BulkGuestbook(u, e, ids, a))
                     => /\ Untouched(id)
                        /\ e = items[id].event => Denied]_vars

\* a refusal while both events hold items: in this specification only a
\* stranger is ever answered 403
C19_Witness ==
    /\ resp = Error(403)
    /\ \E i, j \in ItemIds : /\ items[i] # NoDoc /\ items[i].event = "E1"
                             /\ items[j] # NoDoc /\ items[j].event = "E2"

----------------------------------------------------------------------------
(* Comments and replies *)

\* the comment or reply that the latest request appended to item id
Stored(id) == items'[id].comments[Len(items'[id].comments)]

CommentAnnounced ==
    /\ resp.op = "addComment"
    /\ emitted # <<>>
    /\ \E id \in resp.ids :
          /\ InColl("media", id)
          /\ items[id].comments[Len(items[id].comments)].isApproved


----------------------------------------------------------------------------
(* Failing writes *)

\* the messages that announce a new or a changed item
StoredTypes == {"new-media", "new-guestbook-entry", "media-approved", "guestbook-approved"}

\* C21: if persisting an item or an interaction fails (the save of a new
\* media item, guestbook entry, like, comment or reply, or the update or
\* delete of an item, raises an error), then no broadcast message about that
\* item or interaction is emitted to any room.
C21_FailedWritesNotBroadcast ==
    [][/\ resp'.code = 500 => emitted' = <<>>
       /\ \A k \in 1..Len(emitted') :
            /\ emitted'[k].type \in StoredTypes => items'[emitted'[k].id] # NoDoc
            /\ emitted'[k].type = "new-media" =>
                  /\ items[emitted'[k].id] = NoDoc
                  /\ emitted'[k].id \in resp'.ids
            /\ emitted'[k].type = "media-deleted" => items'[emitted'[k].id] = NoDoc]_vars

\* an upload of two files of which one was saved and announced and the other
\* raised
C21_Witness ==
    /\ resp.op = "guestUpload"
    /\ resp.failed # {}
    /\ Len(emitted) = 1
    /\ items[emitted[1].id] # NoDoc


----------------------------------------------------------------------------
(* Deleting stored files *)

DeleteOps == {"deleteMedia", "deleteEntry", "bulkMedia"}

\* C22: when an owner deletes a media item or guestbook entry, deletion of
\* the externally stored payload is attempted first and the database record
\* is then deleted whether or not the storage deletion failed: a
\* storage-deletion failure never leaves the database record in place.
C22_RecordDeletedDespiteStorage ==
    [][(resp'.op \in DeleteOps /\ resp'.code = 200) =>
         /\ \A i \in resp'.req : items[i] # NoDoc /\ items'[i] = NoDoc
         /\ \A i \in resp'.req \ resp'.kept : i \notin storage'
         /\ \A i \in resp'.kept : i \in storage']_vars

\* a record deleted although its file could not be removed: the file stays
\* behind without a record
C22_Witness ==
    /\ resp.op \in DeleteOps
    /\ resp.code = 200
    /\ resp.kept # {}
    /\ \A i \in resp.kept : items[i] = NoDoc /\ i \in storage


----------------------------------------------------------------------------
(* Terminated connections *)

DisconnectLeavesAll ==
    [][\A s \in Sockets :
         (sockets[s].connected /\ ~sockets'[s].connected) => sockets'[s].rooms = {}]_vars


----------------------------------------------------------------------------
(* Rate limiting *)

\* the requests of identifier a that were passed on and arrived in the
\* interval [t0, t0 + WindowMs - 1], which is shorter than the window
PassedWithin(a, t0) ==
    {k \in 1..Len(limiter.passed[a]) :
        t0 <= limiter.passed[a][k] /\ limiter.passed[a][k] < t0 + WindowMs}

\* C24: for each userRateLimit(maxRequests, windowMs) instance and each
\* identifier (user id when authenticated, otherwise client IP), at most
\* maxRequests requests whose arrival times lie within any interval shorter
\* than windowMs are passed on to the handler; a request beyond that is
\* answered 429, does not reach the handler, and is not recorded in the
\* window.
C24_RateLimited ==
    [][/\ \A a \in Identifiers, t0 \in 0..MaxNow :
            Cardinality(PassedWithin(a, t0))' <= MaxRequests
       /\ \A a \in Identifiers :
            (/\ resp'.op = "rateLimit" /\ resp'.identifier = a
             /\ limiter'.now = limiter.now
             /\ Cardinality(PassedWithin(a, limiter.now - WindowMs + 1)) >= MaxRequests)
               => /\ resp'.code = 429
                  /\ limiter' = limiter]_vars

\* a request refused after the limit was reached in the current window, while
\* earlier windows had been used up as well
C24_Witness ==
    /\ resp.op = "rateLimit"
    /\ resp.code = 429
    /\ Len(limiter.passed[resp.identifier]) > MaxRequests
    /\ Len(limiter.requests[resp.identifier]) = MaxRequests


----------------------------------------------------------------------------
(* The like count reported *)

ReportedIsLoadedPlusOne ==
    [][\A c \in Clients :
         (reqs[c].pc = "loaded" /\ reqs'[c].pc = "done" /\ reqs'[c].code = 200) =>
            resp'.likeCount = Len(addLike(reqs[c].snap, reqs[c].name)) + 1]_vars


----------------------------------------------------------------------------
(* Concurrent approvals *)

\* C26: when two update requests that both set status approved on the same
\* pending item are processed concurrently (each being load item, write
\* update, compare the loaded status, emit), the item's single transition
\* into approved produces at most one media-approved / guestbook-approved
\* message.
C26_OneMessagePerApproval ==
    [][\A k \in 1..Len(emitted') :
         emitted'[k].type \in {"media-approved", "guestbook-approved"} =>
            /\ items[emitted'[k].id].status # "approved"
            /\ items'[emitted'[k].id].status = "approved"]_vars

\* requests that do not overlap announce an approval once
SerialApprovalsAnnouncedOnce ==
    [][(\A c \in Clients : reqs[c].pc = "loaded" => reqs'[c].pc = "done"
                                                    /\ reqs[c].snap = items[reqs[c].id].status) =>
         \A k \in 1..Len(emitted') :
            emitted'[k].type \in {"media-approved", "guestbook-approved"} =>
               items[emitted'[k].id].status # "approved"]_vars


----------------------------------------------------------------------------
(* Joining a room *)

\* C27: a connection becomes a member of an event's room, and so receives
\* that event's broadcasts, only if it has passed that event's guest access
\* check (event exists, is active and published, and the correct password
\* was supplied when the event is password protected).  A join-event message
\* carries the event id and nothing else, so the check it could pass is the
\* one without a password.
C27_MembersPassedAccessCheck ==
    \A s \in Sockets, e \in EventIds :
       e \in sockets[s].rooms => validateEventAccess(e, "") = 0

\* the broadcasts of a password protected event are not received by a
\* connection that supplied no password
ProtectedBroadcastsNotReceived ==
    \A s \in Sockets :
       \A k \in 1..Len(inbox[s]) : validateEventAccess(inbox[s][k].room, "") = 0


----------------------------------------------------------------------------
(* Content of protected events *)

ContentOps == {"listMedia", "listGuestbook", "getMedia", "getEntry", "download"}

\* C28: content of an event that is password protected, inactive or
\* unpublished is never returned to an unauthenticated request that has not
\* passed the event access check: this holds for the single-media read, the
\* media download and the single-guestbook-entry read as well as for the
\* listings.
C28_ProtectedContentNotReturned ==
    [][(resp'.op \in ContentOps /\ resp'.code = 200) =>
         \A id \in resp'.ids : validateEventAccess(items[id].event, "") = 0]_vars

\* the listings alone keep the content of a protected event back
ListingsKeepProtectedContent ==
    [][(resp'.op \in {"listMedia", "listGuestbook"} /\ resp'.code = 200) =>
         \A id \in resp'.ids : validateEventAccess(items[id].event, "") = 0]_vars


----------------------------------------------------------------------------
(* Event counters *)

\* C29: after any sequence of guest and host uploads, guestbook posts,
\* approvals, rejections and single or bulk deletions, the incrementally
\* maintained event counters statistics.totalPhotos, statistics.totalVideos
\* and statistics.totalGuestbookEntries are never negative and never exceed
\* the number of items of that kind currently stored for the event.
C29_CountersWithinStored ==
    \A e \in EventIds :
       /\ 0 <= stats[e].totalPhotos
       /\ stats[e].totalPhotos <= CountDocs("media", e, {"image"})
       /\ 0 <= stats[e].totalVideos
       /\ stats[e].totalVideos <= CountDocs("media", e, {"video"})
       /\ 0 <= stats[e].totalGuestbookEntries
       /\ stats[e].totalGuestbookEntries
             <= CountDocs("guestbook", e, {"text", "audio", "mixed"})

\* no counter is ever negative
CountersNotNegative ==
    \A e \in EventIds :
       /\ 0 <= stats[e].totalPhotos
       /\ 0 <= stats[e].totalVideos
       /\ 0 <= stats[e].totalGuestbookEntries

\* no counter ever exceeds the number of stored items
CountersNotAboveStored ==
    \A e \in EventIds :
       /\ stats[e].totalPhotos <= CountDocs("media", e, {"image"})
       /\ stats[e].totalVideos <= CountDocs("media", e, {"video"})
       /\ stats[e].totalGuestbookEntries
             <= CountDocs("guestbook", e, {"text", "audio", "mixed"})


----------------------------------------------------------------------------
(* Likes and comments switched off *)

LikesOffThroughout ==
    [][(reqs[1].pc = "loaded" /\ reqs'[1].pc = "done" /\ reqs'[1].code = 200
          /\ ~events[reqs[1].e].allowLikes) =>
         items'[reqs[1].id].likes = items[reqs[1].id].likes]_vars

====
